---- MODULE Spec2Model ----
(***************************************************************************)
(* Model of the JSON-RPC forwarding proxy (package proxy): NewProxyServer,  *)
(* ProxyServer.Start and ProxyServer.ServeHTTP.                             *)
(*                                                                         *)
(* Text is modelled with TLC strings; a byte stream (request body, provider *)
(* response body, caller response body) is a sequence of tokens: one token  *)
(* per provider/request byte, and one token per line written by             *)
(* fmt.Fprintln (the message followed by "\n").                             *)
(***************************************************************************)
EXTENDS Integers, Sequences, FiniteSets, TLC

VARIABLES
    args,       \* the arguments NewProxyServer is called with
    server,     \* the *ProxyServer (Port, ProviderUrl), NoServer before construction
    lifecycle,  \* "new", "constructed", "listening", "bindFailed"
    pc,         \* per handler goroutine: position in ServeHTTP
    rid,        \* per handler: ordinal of the request it is serving
    req,        \* per handler: the *http.Request r
    w,          \* per handler: what the handler did to the http.ResponseWriter w
    posts,      \* per handler: the http.Post calls made for the current request
    resp,       \* per handler: the provider *http.Response (NoResponse if none)
    copied,     \* per handler: bytes of response.Body io.Copy has relayed so far
    hlog,       \* per handler: the lines it passed to log.Println
    conns,      \* ordinals of the requests whose provider response body is open
    accepted,   \* number of requests dispatched to ServeHTTP so far
    errKinds    \* the error exits taken by requests that have completed so far

vars == <<args, server, lifecycle, pc, rid, req, w, posts, resp, copied, hlog,
          conns, accepted, errKinds>>

(* Bounds and input sets *)

MaxRequests == 4    \* requests accepted in one run
MaxRespLen == 2     \* length of a provider response body

Handlers == {"h1", "h2"}
SerialHandlers == {"h1"}

Ports == {"8545", "8546"}
ExplicitUrls == {"", "http://localhost:8545", "https://eth.example/rpc"}
Networks == {"", "mainnet", "goerli"}
ProjectIds == {"", "abc123", "p2"}

AllInputs ==
    [port : Ports, providerUrl : ExplicitUrls, network : Networks, projectId : ProjectIds]

DeployedInputs ==
    { [port |-> "8545", providerUrl |-> "", network |-> "mainnet", projectId |-> "abc123"],
      [port |-> "8546", providerUrl |-> "http://localhost:8545", network |-> "goerli",
       projectId |-> ""] }

Methods == {"POST", "GET"}
Paths == {"/", "/rpc"}
RemoteAddrs == {"127.0.0.1:40000"}
Bodies == { <<>>, <<"{", "}">> }

\* r.Header: a map from header name to the list of its values
RequestHeaders ==
    { <<>>,
      [k \in {"Accept"} |-> <<"*/*">>],
      [k \in {"Content-Type"} |-> <<>>],
      [k \in {"Content-Type"} |-> <<"">>],
      [k \in {"Content-Type"} |-> <<"application/json">>],
      [k \in {"Content-Type", "Accept"} |->
          IF k = "Content-Type" THEN <<"text/plain", "application/json">> ELSE <<"*/*">>] }

Requests ==
    [Method : Methods, Path : Paths, RemoteAddr : RemoteAddrs,
     Header : RequestHeaders, Body : Bodies]

ByteAlphabet == {"a", "b"}
ProviderContentTypes == {"application/json", "text/html"}
ForwardErrors == {"dial tcp: connection refused"}
CopyErrors == {"unexpected EOF"}

SeqsUpTo(S, n) == UNION { [1..k -> S] : k \in 0..n }

ProviderResponses ==
    [ContentType : ProviderContentTypes, Body : SeqsUpTo(ByteAlphabet, MaxRespLen)]

NoServer == [Port |-> "<nil>", ProviderUrl |-> "<nil>"]
NoRequest == [Method |-> "", Path |-> "", RemoteAddr |-> "", Header |-> <<>>, Body |-> <<>>]
NoResponse == [ContentType |-> "<nil>", Body |-> <<>>]
NewResponseWriter == [Header |-> <<>>, Body |-> <<>>]

(* Library functions the code calls *)

\* fmt.Sprintf restricted to the %s verb: the format is given as its pieces,
\* each "%s" consumes the next operand ("%!s(MISSING)" when none is left).
RECURSIVE Sprintf(_, _)
Sprintf(format, a) ==
    IF format = <<>> THEN ""
    ELSE IF Head(format) = "%s"
         THEN IF a = <<>>
              THEN "%!s(MISSING)" \o Sprintf(Tail(format), a)
              ELSE Head(a) \o Sprintf(Tail(format), Tail(a))
         ELSE Head(format) \o Sprintf(Tail(format), a)

\* fmt.Fprintln(w, err): the message and a newline are written to w
Fprintln(wr, msg) == [wr EXCEPT !.Body = @ \o <<msg \o "\n">>]

\* w.Header().Set(key, value)
HeaderSet(wr, key, value) ==
    [wr EXCEPT !.Header =
        [k \in (DOMAIN wr.Header) \cup {key} |-> IF k = key THEN <<value>> ELSE wr.Header[k]]]

\* contentTypes, ok := r.Header["Content-Type"]
HeaderValues(header, key) == IF key \in DOMAIN header THEN header[key] ELSE <<>>
HeaderOk(header, key) == key \in DOMAIN header

(* Construction and listening *)

\* mutants of NewProxyServer: operands of the template swapped; the default
\* applied to an explicit URL instead of an empty one
NewProxyServerSwapped(port, providerUrl, network, projectId) ==
    [Port |-> port,
     ProviderUrl |-> IF providerUrl = ""
                     THEN "https://" \o projectId \o ".infura.io/v3/" \o network
                     ELSE providerUrl]

NewProxyServerInverted(port, providerUrl, network, projectId) ==
    [Port |-> port,
     ProviderUrl |-> IF providerUrl # ""
                     THEN "https://" \o network \o ".infura.io/v3/" \o projectId
                     ELSE providerUrl]

\* mutant of NewProxyServer: the default is never applied
NewProxyServerNoDefault(port, providerUrl, network, projectId) ==
    [Port |-> port, ProviderUrl |-> providerUrl]

INFURA_URL == <<"https://", "%s", ".infura.io/v3/", "%s">>

NewProxyServer(port, providerUrl, network, projectId) ==
    [Port |-> port,
     ProviderUrl |-> IF providerUrl = ""
                     THEN Sprintf(INFURA_URL, <<network, projectId>>)
                     ELSE providerUrl]

Construct ==
    /\ lifecycle = "new"
    /\ server' = NewProxyServer(args.port, args.providerUrl, args.network, args.projectId)
    /\ lifecycle' = "constructed"
    /\ UNCHANGED <<args, pc, rid, req, w, posts, resp, copied, hlog, conns, accepted,
                   errKinds>>

\* Start: http.ListenAndServe either binds and serves, or returns the bind error
Start ==
    /\ lifecycle = "constructed"
    /\ lifecycle' \in {"listening", "bindFailed"}
    /\ UNCHANGED <<args, server, pc, rid, req, w, posts, resp, copied, hlog, conns,
                   accepted, errKinds>>

InitWith(inputs) ==
    /\ args \in inputs
    /\ server = NoServer
    /\ lifecycle = "new"
    /\ pc = [h \in Handlers |-> "idle"]
    /\ rid = [h \in Handlers |-> 0]
    /\ req = [h \in Handlers |-> NoRequest]
    /\ w = [h \in Handlers |-> NewResponseWriter]
    /\ posts = [h \in Handlers |-> <<>>]
    /\ resp = [h \in Handlers |-> NoResponse]
    /\ copied = [h \in Handlers |-> 0]
    /\ hlog = [h \in Handlers |-> <<>>]
    /\ conns = {}
    /\ accepted = 0
    /\ errKinds = {}

InitNew == InitWith(AllInputs)

NextNew == Construct \/ Start

SpecNew == InitNew /\ [][NextNew]_vars


(* ServeHTTP: one handler goroutine per accepted request *)

Returns == {"ret69", "ret77", "ret89", "ret95"}

\* mutant of HttpPost: the content type is hard-coded instead of passed on
HttpPostJson(url, contentType, body) ==
    [Method |-> "POST", URL |-> url, ContentType |-> "application/json", Body |-> body]

\* http.Post(url, contentType, body): the outbound call it issues
HttpPost(url, contentType, body) ==
    [Method |-> "POST", URL |-> url, ContentType |-> contentType, Body |-> body]

\* line 66: !ok || len(contentTypes) == 0
ContentTypeNotSpecified(r) ==
    \/ ~HeaderOk(r.Header, "Content-Type")
    \/ Len(HeaderValues(r.Header, "Content-Type")) = 0

\* the host HTTP server dispatches an inbound request to ServeHTTP (line 62 logs it)
Accept(h) ==
    /\ lifecycle = "listening"
    /\ pc[h] = "idle"
    /\ accepted < MaxRequests
    /\ \E r \in Requests :
          /\ req' = [req EXCEPT ![h] = r]
          /\ hlog' = [hlog EXCEPT ![h] =
                <<Sprintf(<<"New ", "%s", " request received from ", "%s">>,
                          <<r.Method, r.RemoteAddr>>)>>]
    /\ accepted' = accepted + 1
    /\ rid' = [rid EXCEPT ![h] = accepted + 1]
    /\ w' = [w EXCEPT ![h] = NewResponseWriter]
    /\ posts' = [posts EXCEPT ![h] = <<>>]
    /\ resp' = [resp EXCEPT ![h] = NoResponse]
    /\ copied' = [copied EXCEPT ![h] = 0]
    /\ pc' = [pc EXCEPT ![h] = "L65"]
    /\ UNCHANGED <<args, server, lifecycle, conns, errKinds>>

\* mutant of MissingContentType: the error is logged but not written to w
MissingContentTypeLogOnly(h) ==
    /\ pc[h] = "L65"
    /\ ContentTypeNotSpecified(req[h])
    /\ hlog' = [hlog EXCEPT ![h] = Append(@, "Request Content-Type header not specified")]
    /\ pc' = [pc EXCEPT ![h] = "ret69"]
    /\ errKinds' = errKinds \cup {"missingContentType"}
    /\ UNCHANGED <<args, server, lifecycle, rid, req, w, posts, resp, copied, conns,
                   accepted>>

\* lines 65-70: no Content-Type, the error is logged and written, return
MissingContentType(h) ==
    /\ pc[h] = "L65"
    /\ ContentTypeNotSpecified(req[h])
    /\ hlog' = [hlog EXCEPT ![h] = Append(@, "Request Content-Type header not specified")]
    /\ w' = [w EXCEPT ![h] = Fprintln(@, "Request Content-Type header not specified")]
    /\ pc' = [pc EXCEPT ![h] = "ret69"]
    /\ errKinds' = errKinds \cup {"missingContentType"}
    /\ UNCHANGED <<args, server, lifecycle, rid, req, posts, resp, copied, conns, accepted>>

\* mutant of ForwardFail: a failed Post is tried once more before giving up
ForwardFailRetry(h) ==
    /\ pc[h] = "L65"
    /\ ~ContentTypeNotSpecified(req[h])
    /\ posts' = [posts EXCEPT ![h] =
          @ \o << HttpPost(server.ProviderUrl,
                           HeaderValues(req[h].Header, "Content-Type")[1], req[h].Body),
                  HttpPost(server.ProviderUrl,
                           HeaderValues(req[h].Header, "Content-Type")[1], req[h].Body) >>]
    /\ \E e \in ForwardErrors :
          /\ hlog' = [hlog EXCEPT ![h] =
                Append(@, "Error forwarding request to remote server: " \o e)]
          /\ w' = [w EXCEPT ![h] =
                Fprintln(@, "Error forwarding request to remote server: " \o e)]
    /\ pc' = [pc EXCEPT ![h] = "ret77"]
    /\ errKinds' = errKinds \cup {"forwardError"}
    /\ UNCHANGED <<args, server, lifecycle, rid, req, resp, copied, conns, accepted>>

\* mutant of ForwardFail: log.Fatal in place of log.Println ends the process
ForwardFailFatal(h) ==
    /\ pc[h] = "L65"
    /\ ~ContentTypeNotSpecified(req[h])
    /\ posts' = [posts EXCEPT ![h] =
          Append(@, HttpPost(server.ProviderUrl,
                             HeaderValues(req[h].Header, "Content-Type")[1], req[h].Body))]
    /\ \E e \in ForwardErrors :
          hlog' = [hlog EXCEPT ![h] =
                Append(@, "Error forwarding request to remote server: " \o e)]
    /\ lifecycle' = "exited"
    /\ pc' = [pc EXCEPT ![h] = "ret77"]
    /\ errKinds' = errKinds \cup {"forwardError"}
    /\ UNCHANGED <<args, server, rid, req, w, resp, copied, conns, accepted>>

\* mutant of ForwardFail: the Content-Type of the response is set before the Post
ForwardFailHeaderFirst(h) ==
    /\ pc[h] = "L65"
    /\ ~ContentTypeNotSpecified(req[h])
    /\ posts' = [posts EXCEPT ![h] =
          Append(@, HttpPost(server.ProviderUrl,
                             HeaderValues(req[h].Header, "Content-Type")[1], req[h].Body))]
    /\ \E e \in ForwardErrors :
          /\ hlog' = [hlog EXCEPT ![h] =
                Append(@, "Error forwarding request to remote server: " \o e)]
          /\ w' = [w EXCEPT ![h] =
                Fprintln(HeaderSet(@, "Content-Type", "application/json"),
                         "Error forwarding request to remote server: " \o e)]
    /\ pc' = [pc EXCEPT ![h] = "ret77"]
    /\ errKinds' = errKinds \cup {"forwardError"}
    /\ UNCHANGED <<args, server, lifecycle, rid, req, resp, copied, conns, accepted>>

\* lines 65-78: http.Post returns an error; it is logged and written, return
ForwardFail(h) ==
    /\ pc[h] = "L65"
    /\ ~ContentTypeNotSpecified(req[h])
    /\ posts' = [posts EXCEPT ![h] =
          Append(@, HttpPost(server.ProviderUrl,
                             HeaderValues(req[h].Header, "Content-Type")[1], req[h].Body))]
    /\ \E e \in ForwardErrors :
          /\ hlog' = [hlog EXCEPT ![h] =
                Append(@, "Error forwarding request to remote server: " \o e)]
          /\ w' = [w EXCEPT ![h] =
                Fprintln(@, "Error forwarding request to remote server: " \o e)]
    /\ pc' = [pc EXCEPT ![h] = "ret77"]
    /\ errKinds' = errKinds \cup {"forwardError"}
    /\ UNCHANGED <<args, server, lifecycle, rid, req, resp, copied, conns, accepted>>

\* mutant of ForwardOk: the provider's own Content-Type is passed to the caller
ForwardOkPassThrough(h) ==
    /\ pc[h] = "L65"
    /\ ~ContentTypeNotSpecified(req[h])
    /\ posts' = [posts EXCEPT ![h] =
          Append(@, HttpPost(server.ProviderUrl,
                             HeaderValues(req[h].Header, "Content-Type")[1], req[h].Body))]
    /\ \E pr \in ProviderResponses :
          /\ resp' = [resp EXCEPT ![h] = pr]
          /\ w' = [w EXCEPT ![h] = HeaderSet(@, "Content-Type", pr.ContentType)]
    /\ conns' = conns \cup {rid[h]}
    /\ pc' = [pc EXCEPT ![h] = "L85"]
    /\ UNCHANGED <<args, server, lifecycle, rid, req, copied, hlog, accepted, errKinds>>

\* lines 65-82: http.Post returns the provider's response; its body is open until
\* the deferred Close; the response writer's Content-Type is set
ForwardOk(h) ==
    /\ pc[h] = "L65"
    /\ ~ContentTypeNotSpecified(req[h])
    /\ posts' = [posts EXCEPT ![h] =
          Append(@, HttpPost(server.ProviderUrl,
                             HeaderValues(req[h].Header, "Content-Type")[1], req[h].Body))]
    /\ \E pr \in ProviderResponses : resp' = [resp EXCEPT ![h] = pr]
    /\ conns' = conns \cup {rid[h]}
    /\ w' = [w EXCEPT ![h] = HeaderSet(@, "Content-Type", "application/json")]
    /\ pc' = [pc EXCEPT ![h] = "L85"]
    /\ UNCHANGED <<args, server, lifecycle, rid, req, copied, hlog, accepted, errKinds>>

\* mutant of CopyChunk: the provider response is kept in a field shared by all
\* handlers, so a handler may relay the bytes of whichever response is there
CopyChunkShared(h) ==
    /\ pc[h] = "L85"
    /\ \E g \in Handlers :
          /\ pc[g] = "L85"
          /\ copied[h] < Len(resp[g].Body)
          /\ \E n \in 1..(Len(resp[g].Body) - copied[h]) :
                /\ w' = [w EXCEPT ![h].Body =
                      @ \o SubSeq(resp[g].Body, copied[h] + 1, copied[h] + n)]
                /\ copied' = [copied EXCEPT ![h] = @ + n]
    /\ UNCHANGED <<args, server, lifecycle, pc, rid, req, posts, resp, hlog, conns,
                   accepted, errKinds>>

\* line 85, inside io.Copy: the next n bytes read from response.Body are written to w
CopyChunk(h) ==
    /\ pc[h] = "L85"
    /\ copied[h] < Len(resp[h].Body)
    /\ \E n \in 1..(Len(resp[h].Body) - copied[h]) :
          /\ w' = [w EXCEPT ![h].Body =
                @ \o SubSeq(resp[h].Body, copied[h] + 1, copied[h] + n)]
          /\ copied' = [copied EXCEPT ![h] = @ + n]
    /\ UNCHANGED <<args, server, lifecycle, pc, rid, req, posts, resp, hlog, conns,
                   accepted, errKinds>>

\* lines 85-95: io.Copy reaches EOF; success is logged; the deferred Close runs
CopyDone(h) ==
    /\ pc[h] = "L85"
    /\ copied[h] = Len(resp[h].Body)
    /\ hlog' = [hlog EXCEPT ![h] =
          Append(@, Sprintf(<<"Response sent to ", "%s", " successfully">>,
                            <<req[h].RemoteAddr>>))]
    /\ conns' = conns \ {rid[h]}
    /\ pc' = [pc EXCEPT ![h] = "ret95"]
    /\ UNCHANGED <<args, server, lifecycle, rid, req, w, posts, resp, copied, accepted,
                   errKinds>>

\* mutant of CopyFail: the response body is closed on the success path only
CopyFailNoClose(h) ==
    /\ pc[h] = "L85"
    /\ \E e \in CopyErrors :
          /\ hlog' = [hlog EXCEPT ![h] =
                Append(@, "Error reading response from remote server: " \o e)]
          /\ w' = [w EXCEPT ![h] =
                Fprintln(@, "Error reading response from remote server: " \o e)]
    /\ pc' = [pc EXCEPT ![h] = "ret89"]
    /\ errKinds' = errKinds \cup {"copyError"}
    /\ UNCHANGED <<args, server, lifecycle, rid, req, posts, resp, copied, conns,
                   accepted>>

\* mutant of CopyFail: the error message replaces what was relayed
CopyFailReplace(h) ==
    /\ pc[h] = "L85"
    /\ \E e \in CopyErrors :
          /\ hlog' = [hlog EXCEPT ![h] =
                Append(@, "Error reading response from remote server: " \o e)]
          /\ w' = [w EXCEPT ![h].Body =
                <<"Error reading response from remote server: " \o e \o "\n">>]
    /\ conns' = conns \ {rid[h]}
    /\ pc' = [pc EXCEPT ![h] = "ret89"]
    /\ errKinds' = errKinds \cup {"copyError"}
    /\ UNCHANGED <<args, server, lifecycle, rid, req, posts, resp, copied, accepted>>

\* lines 85-90: a read from response.Body fails; the error is logged and written
\* after whatever was relayed; return; the deferred Close runs
CopyFail(h) ==
    /\ pc[h] = "L85"
    /\ \E e \in CopyErrors :
          /\ hlog' = [hlog EXCEPT ![h] =
                Append(@, "Error reading response from remote server: " \o e)]
          /\ w' = [w EXCEPT ![h] =
                Fprintln(@, "Error reading response from remote server: " \o e)]
    /\ conns' = conns \ {rid[h]}
    /\ pc' = [pc EXCEPT ![h] = "ret89"]
    /\ errKinds' = errKinds \cup {"copyError"}
    /\ UNCHANGED <<args, server, lifecycle, rid, req, posts, resp, copied, accepted>>

\* ServeHTTP has returned: the host server ends the exchange, the goroutine is gone
Release(h) ==
    /\ pc[h] \in Returns
    /\ pc' = [pc EXCEPT ![h] = "idle"]
    /\ rid' = [rid EXCEPT ![h] = 0]
    /\ req' = [req EXCEPT ![h] = NoRequest]
    /\ w' = [w EXCEPT ![h] = NewResponseWriter]
    /\ posts' = [posts EXCEPT ![h] = <<>>]
    /\ resp' = [resp EXCEPT ![h] = NoResponse]
    /\ copied' = [copied EXCEPT ![h] = 0]
    /\ hlog' = [hlog EXCEPT ![h] = <<>>]
    /\ UNCHANGED <<args, server, lifecycle, conns, accepted, errKinds>>

ServeHTTP(h) ==
    \/ MissingContentType(h)
    \/ ForwardFail(h)
    \/ ForwardOk(h)
    \/ CopyChunk(h)
    \/ CopyDone(h)
    \/ CopyFail(h)

Init == InitWith(DeployedInputs)

\* requests served one at a time
Next ==
    \/ Construct
    \/ Start
    \/ \E h \in SerialHandlers : Accept(h) \/ ServeHTTP(h) \/ Release(h)

Spec == Init /\ [][Next]_vars

(* Several requests in flight at once: the host server runs one ServeHTTP
   goroutine per connection.  The requests and provider answers are drawn from
   smaller sets than in Spec. *)

ConcRequests ==
    { [Method |-> "POST", Path |-> "/", RemoteAddr |-> "127.0.0.1:40000",
       Header |-> [k \in {"Content-Type"} |-> <<"application/json">>],
       Body |-> <<"{", "}">>],
      [Method |-> "GET", Path |-> "/rpc", RemoteAddr |-> "127.0.0.1:40000",
       Header |-> [k \in {"Content-Type"} |-> <<"application/json">>],
       Body |-> <<>>],
      [Method |-> "POST", Path |-> "/", RemoteAddr |-> "127.0.0.1:40000",
       Header |-> <<>>,
       Body |-> <<"{", "}">>] }

ConcResponses ==
    { [ContentType |-> "application/json", Body |-> <<"a", "b">>],
      [ContentType |-> "text/html", Body |-> <<"b">>] }

AcceptConc(h) == Accept(h) /\ req'[h] \in ConcRequests

ForwardOkConc(h) == ForwardOk(h) /\ resp'[h] \in ConcResponses

InitConc == InitWith(DeployedInputs)

NextConc ==
    \/ Construct
    \/ Start
    \/ \E h \in Handlers :
          \/ AcceptConc(h)
          \/ MissingContentType(h)
          \/ ForwardFail(h)
          \/ ForwardOkConc(h)
          \/ CopyChunk(h)
          \/ CopyDone(h)
          \/ CopyFail(h)
          \/ Release(h)

SpecConc == InitConc /\ [][NextConc]_vars

(* Every construction followed by requests served one at a time, the requests
   and provider answers drawn from the smaller sets. *)

NextServe ==
    \/ Construct
    \/ Start
    \/ \E h \in SerialHandlers :
          \/ AcceptConc(h)
          \/ MissingContentType(h)
          \/ ForwardFail(h)
          \/ ForwardOkConc(h)
          \/ CopyChunk(h)
          \/ CopyDone(h)
          \/ CopyFail(h)
          \/ Release(h)

SpecServe == InitNew /\ [][NextServe]_vars

(* The claims *)

JsonHeader == [k \in {"Content-Type"} |-> <<"application/json">>]
MissingLine == "Request Content-Type header not specified" \o "\n"
ForwardLines == { "Error forwarding request to remote server: " \o e \o "\n" : e \in ForwardErrors }
CopyLines == { "Error reading response from remote server: " \o e \o "\n" : e \in CopyErrors }
IsPrefix(s, t) == Len(s) <= Len(t) /\ SubSeq(t, 1, Len(s)) = s
Serving(h) == pc[h] # "idle"

\* C1: a request without a Content-Type header never causes an outbound call, and
\* once its handler has returned the response body holds the error message.
C1_MissingContentTypeRejected ==
    \A h \in Handlers :
        (Serving(h) /\ ~HeaderOk(req[h].Header, "Content-Type")) =>
            /\ posts[h] = <<>>
            /\ resp[h] = NoResponse
            /\ pc[h] \in {"L65", "ret69"}
            /\ pc[h] = "ret69" => w[h].Body = <<MissingLine>>

C1_Witness ==
    \E h \in Handlers :
        /\ pc[h] = "ret69"
        /\ ~HeaderOk(req[h].Header, "Content-Type")
        /\ req[h].Body # <<>>
        /\ w[h].Body = <<MissingLine>>

\* C2: when the forward succeeded and the copy completed, the caller's body is
\* exactly the provider's bytes and the response Content-Type is application/json,
\* whatever Content-Type the provider returned.
C2_ExactRelay ==
    \A h \in Handlers :
        pc[h] = "ret95" =>
            /\ w[h].Body = resp[h].Body
            /\ w[h].Header = JsonHeader

C2_Witness ==
    \E h \in Handlers :
        /\ pc[h] = "ret95"
        /\ resp[h].ContentType = "text/html"
        /\ resp[h].Body = <<"b", "a">>
        /\ req[h].Body # <<>>
        /\ w[h].Body = <<"b", "a">>

\* C3: a provider connection is open only while its own handler is between the
\* successful Post and its return; a handler that has returned, on any exit path,
\* owns no open connection, however many requests have failed before.
C3_NoLeakedConnection ==
    /\ \A c \in conns : \E h \in Handlers : rid[h] = c /\ pc[h] = "L85"
    /\ \A h \in Handlers : pc[h] \in Returns \cup {"idle"} => rid[h] \notin conns
    /\ (\A h \in Handlers : pc[h] \in Returns \cup {"idle", "L65"}) => conns = {}

C3_Witness ==
    \E h \in Handlers :
        /\ pc[h] = "ret89"
        /\ accepted >= 3
        /\ "copyError" \in errKinds
        /\ copied[h] > 0
        /\ copied[h] < Len(resp[h].Body)
        /\ conns = {}

\* C4: a forward failure leaves the caller a non-empty plaintext line describing it;
\* after requests have ended in errors the server is still listening, still accepts
\* a request, can still forward it, and a request that then completes has relayed
\* the provider's bytes.
C4_ErrorsDoNotStopServer ==
    /\ \A h \in Handlers :
          pc[h] = "ret77" =>
              /\ Len(w[h].Body) = 1
              /\ w[h].Body[1] \in ForwardLines
              /\ Len(w[h].Body[1]) > 1
    /\ errKinds # {} => lifecycle = "listening"
    /\ \A h \in SerialHandlers :
          errKinds # {} =>
              /\ (pc[h] = "idle" /\ accepted < MaxRequests) => ENABLED Accept(h)
              /\ (pc[h] = "L65" /\ ~ContentTypeNotSpecified(req[h])) => ENABLED ForwardOk(h)
              /\ pc[h] = "L85" => ENABLED (CopyChunk(h) \/ CopyDone(h))
              /\ pc[h] = "ret95" => (w[h].Body = resp[h].Body /\ w[h].Header = JsonHeader)

C4_Witness ==
    \E h \in Handlers :
        /\ pc[h] = "ret95"
        /\ errKinds = {"missingContentType", "forwardError", "copyError"}
        /\ lifecycle = "listening"
        /\ Len(resp[h].Body) = 2
        /\ w[h].Body = resp[h].Body

\* C5: with an empty explicit URL the server's ProviderUrl is exactly
\* "https://" + network + ".infura.io/v3/" + projectId, for every network and
\* project id, empty ones included, and its Port is the given port.
C5_DefaultProviderUrl ==
    (lifecycle # "new" /\ args.providerUrl = "") =>
        /\ server.ProviderUrl =
              "https://" \o args.network \o ".infura.io/v3/" \o args.projectId
        /\ server.Port = args.port
        /\ (args.network = "mainnet" /\ args.projectId = "abc123") =>
              server.ProviderUrl = "https://mainnet.infura.io/v3/abc123"
        /\ (args.network = "" /\ args.projectId = "") =>
              server.ProviderUrl = "https://.infura.io/v3/"

C5_Witness ==
    /\ lifecycle = "constructed"
    /\ args.providerUrl = ""
    /\ args.network = "mainnet"
    /\ args.projectId = "abc123"
    /\ server = [Port |-> args.port, ProviderUrl |-> "https://mainnet.infura.io/v3/abc123"]

\* C6: with a non-empty explicit URL the server's ProviderUrl is that URL, and
\* constructing with any other network or project id gives the same server.
C6_ExplicitUrlWins ==
    (lifecycle # "new" /\ args.providerUrl # "") =>
        /\ server.ProviderUrl = args.providerUrl
        /\ server.Port = args.port
        /\ \A n \in Networks, p \in ProjectIds :
              NewProxyServer(args.port, args.providerUrl, n, p) = server

C6_Witness ==
    /\ lifecycle = "constructed"
    /\ args.providerUrl = "https://eth.example/rpc"
    /\ args.network = "goerli"
    /\ args.projectId = "p2"
    /\ server.ProviderUrl = "https://eth.example/rpc"

\* what the handler has done to w, given its position, the provider's response and
\* the number of bytes relayed: no inbound method or path enters
ResponseAt(h) ==
    CASE pc[h] = "L65" -> {NewResponseWriter}
      [] pc[h] = "ret69" -> {[Header |-> <<>>, Body |-> <<MissingLine>>]}
      [] pc[h] = "ret77" -> {[Header |-> <<>>, Body |-> <<l>>] : l \in ForwardLines}
      [] pc[h] = "L85" ->
            {[Header |-> JsonHeader, Body |-> SubSeq(resp[h].Body, 1, copied[h])]}
      [] pc[h] = "ret95" -> {[Header |-> JsonHeader, Body |-> resp[h].Body]}
      [] pc[h] = "ret89" ->
            {[Header |-> JsonHeader, Body |-> SubSeq(resp[h].Body, 1, copied[h]) \o <<l>>] :
                l \in CopyLines}
      [] OTHER -> {NewResponseWriter}

\* C7: a request that carries a Content-Type is forwarded as one POST to ProviderUrl
\* with the inbound Content-Type (its first value) and the inbound body; which exit
\* the handler takes and what it writes are fixed by the header, the provider's
\* answer and the copy, not by the inbound method or path.
C7_OutboundPost ==
    \A h \in Handlers :
        Serving(h) =>
            /\ (~ContentTypeNotSpecified(req[h]) /\ pc[h] # "L65") =>
                  posts[h] = << [Method |-> "POST",
                                 URL |-> server.ProviderUrl,
                                 ContentType |-> req[h].Header["Content-Type"][1],
                                 Body |-> req[h].Body] >>
            /\ ContentTypeNotSpecified(req[h]) => posts[h] = <<>>
            /\ pc[h] # "L65" => (pc[h] = "ret69" <=> ContentTypeNotSpecified(req[h]))
            /\ w[h] \in ResponseAt(h)

C7_Witness ==
    \E h \in Handlers :
        /\ pc[h] = "ret95"
        /\ req[h].Method = "GET"
        /\ req[h].Path = "/rpc"
        /\ req[h].Header["Content-Type"] = <<"text/plain", "application/json">>
        /\ req[h].Body = <<"{", "}">>
        /\ posts[h][1].Method = "POST"
        /\ posts[h][1].ContentType = "text/plain"
        /\ posts[h][1].Body = <<"{", "}">>

\* C8: after either early error exit the handler has set no Content-Type on the
\* response and the body is the error line alone; a Content-Type is set on the
\* response only once the Post has returned a response.
C8_EarlyErrorsLeaveHeaderUnset ==
    \A h \in Handlers :
        /\ pc[h] = "ret69" =>
              (~HeaderOk(w[h].Header, "Content-Type") /\ w[h].Body = <<MissingLine>>)
        /\ pc[h] = "ret77" =>
              /\ ~HeaderOk(w[h].Header, "Content-Type")
              /\ \E l \in ForwardLines : w[h].Body = <<l>>
        /\ HeaderOk(w[h].Header, "Content-Type") =>
              /\ resp[h] # NoResponse
              /\ Len(posts[h]) = 1
              /\ pc[h] \in {"L85", "ret89", "ret95"}
              /\ w[h].Header = JsonHeader

C8_Witness ==
    \E h \in Handlers :
        /\ pc[h] = "ret77"
        /\ Len(posts[h]) = 1
        /\ w[h].Header = <<>>
        /\ Len(w[h].Body) = 1

\* a Content-Type that is absent, has no value, or has only empty values
ContentTypeAbsentOrEmpty(r) ==
    \A i \in 1..Len(HeaderValues(r.Header, "Content-Type")) :
        HeaderValues(r.Header, "Content-Type")[i] = ""

\* C9: a request whose Content-Type is absent or empty, a present header with an
\* empty string value included, is rejected: nothing is forwarded and the handler
\* returns after writing the failure message.
C9_EmptyContentTypeRejected ==
    \A h \in Handlers :
        (Serving(h) /\ ContentTypeAbsentOrEmpty(req[h])) =>
            /\ posts[h] = <<>>
            /\ pc[h] \in {"L65", "ret69"}
            /\ pc[h] = "ret69" => w[h].Body = <<MissingLine>>

\* C10: when the copy fails, the response has Content-Type application/json and
\* its body is the bytes relayed so far, a prefix of the provider's bytes, followed
\* by the error line; while the copy runs and when it ends, what was already
\* written to the caller stays as the beginning of the body.
C10_MidCopyFailureAppends ==
    /\ [](\A h \in Handlers :
            pc[h] = "ret89" =>
                /\ w[h].Header = JsonHeader
                /\ copied[h] <= Len(resp[h].Body)
                /\ \E l \in CopyLines :
                      w[h].Body = SubSeq(resp[h].Body, 1, copied[h]) \o <<l>>)
    /\ [][\A h \in Handlers : pc[h] = "L85" => IsPrefix(w[h].Body, w'[h].Body)]_vars

C10_Witness ==
    \E h \in Handlers :
        /\ pc[h] = "ret89"
        /\ resp[h].Body = <<"a", "b">>
        /\ copied[h] = 1
        /\ w[h].Header = JsonHeader
        /\ Len(w[h].Body) = 2
        /\ w[h].Body[1] = "a"
        /\ w[h].Body[2] \in CopyLines

\* C11: a request causes at most one outbound Post; the handler stops at its first
\* failure: after a forward failure it has one Post behind it, has written the
\* failure line only, has set no Content-Type, holds no provider response and has
\* copied nothing, and from any return it takes no further step of the handler.
C11_AtMostOnePostNoRetry ==
    /\ [](\A h \in Handlers :
            /\ Len(posts[h]) <= 1
            /\ pc[h] = "ret77" =>
                  /\ Len(posts[h]) = 1
                  /\ w[h].Header = <<>>
                  /\ w[h].Body \in { <<l>> : l \in ForwardLines }
                  /\ resp[h] = NoResponse
                  /\ copied[h] = 0
                  /\ rid[h] \notin conns
            /\ pc[h] = "ret69" => (posts[h] = <<>> /\ resp[h] = NoResponse /\ copied[h] = 0))
    /\ [][\A h \in Handlers :
            /\ Len(posts'[h]) <= Len(posts[h]) + 1
            /\ (Len(posts'[h]) > Len(posts[h]) /\ pc[h] # "idle") => posts[h] = <<>>
            /\ pc[h] \in Returns =>
                  \/ (pc'[h] = pc[h] /\ w'[h] = w[h] /\ posts'[h] = posts[h])
                  \/ pc'[h] = "idle"]_vars

C11_Witness ==
    \E h \in Handlers :
        /\ pc[h] = "ret77"
        /\ Len(posts[h]) = 1
        /\ req[h].Body # <<>>
        /\ w[h].Header = <<>>
        /\ w[h].Body \in { <<l>> : l \in ForwardLines }
        /\ resp[h] = NoResponse

\* handler h takes a step
Steps(h) == pc'[h] # pc[h] \/ copied'[h] # copied[h]

\* C12: with several requests in flight, under every interleaving: the server's
\* Port and ProviderUrl never change once constructed; the open provider
\* connections are exactly those of the handlers that are copying, and a step of
\* one handler opens or closes only its own; each caller's response is built from
\* its own request's provider response, and a step of one handler leaves every
\* other handler's request, response writer, posts and provider response alone.
C12_HandlersIndependent ==
    /\ [](/\ conns = { rid[h] : h \in { g \in Handlers : pc[g] = "L85" } }
          /\ \A h \in Handlers :
                Serving(h) =>
                    /\ w[h] \in ResponseAt(h)
                    /\ IF ContentTypeNotSpecified(req[h])
                       THEN posts[h] = <<>>
                       ELSE posts[h] \in { <<>>,
                          << [Method |-> "POST", URL |-> server.ProviderUrl,
                              ContentType |-> HeaderValues(req[h].Header, "Content-Type")[1],
                              Body |-> req[h].Body] >> }
          /\ \A h, g \in Handlers : (h # g /\ Serving(h) /\ Serving(g)) => rid[h] # rid[g])
    /\ [][/\ lifecycle # "new" => server' = server
          /\ \A h \in Handlers :
                Steps(h) =>
                    /\ \A c \in (conns \ conns') \cup (conns' \ conns) :
                          c = rid[h] \/ c = rid'[h]
                    /\ \A g \in Handlers \ {h} :
                          /\ pc'[g] = pc[g]
                          /\ req'[g] = req[g]
                          /\ w'[g] = w[g]
                          /\ posts'[g] = posts[g]
                          /\ resp'[g] = resp[g]
                          /\ copied'[g] = copied[g]]_vars

C12_Witness ==
    /\ pc["h1"] = "L85"
    /\ pc["h2"] = "ret89"
    /\ resp["h1"].Body = <<"b">>
    /\ resp["h2"].Body = <<"a", "b">>
    /\ copied["h1"] = 1
    /\ copied["h2"] = 1
    /\ w["h1"].Body = <<"b">>
    /\ w["h2"].Body[1] = "a"
    /\ conns = {rid["h1"]}
    /\ rid["h2"] < rid["h1"]

\* C13: for every input of NewProxyServer, empty network and project id included,
\* the constructed server's ProviderUrl is non-empty before Start and while
\* listening, and no later step (Start, any request) changes the server; every
\* Post goes to that same URL.
C13_ProviderUrlSetAndStable ==
    /\ [](/\ lifecycle # "new" => (server.ProviderUrl # "" /\ Len(server.ProviderUrl) > 0)
          /\ \A h \in Handlers :
                \A i \in 1..Len(posts[h]) : posts[h][i].URL = server.ProviderUrl)
    /\ [][lifecycle # "new" => (server'.ProviderUrl = server.ProviderUrl
                                /\ server'.Port = server.Port)]_vars

C13_Witness ==
    \E h \in Handlers :
        /\ lifecycle = "listening"
        /\ args.providerUrl = ""
        /\ args.network = ""
        /\ args.projectId = ""
        /\ server.ProviderUrl = "https://.infura.io/v3/"
        /\ accepted >= 2
        /\ pc[h] = "ret95"
        /\ posts[h][1].URL = "https://.infura.io/v3/"

====
